---- MODULE Spec2Model ----
(***************************************************************************)
(* A model of bio_hansel/utils.py: the subtype-path comparison, the        *)
(* ranking of inconsistent subtypes, the two tile-count quality checks,    *)
(* the two message translations and the scheme resolution.                 *)
(*                                                                         *)
(* Every function of the module is pure.  Its call is modelled as one      *)
(* action that reads its arguments from the state and stores its outcome   *)
(* (a returned value or a raised exception) in the state.  The arguments   *)
(* are drawn from bounded sets in the initial state.                       *)
(*                                                                         *)
(* Python values:                                                          *)
(*   - an Optional value is a sequence of length 0 (None) or 1 (a value);  *)
(*   - the str n_tiles_matching_all_expected is a sequence of one-character *)
(*     strings, so that split and int act on its characters;               *)
(*   - the strings built by '.'.join are TLA+ strings built with \o;       *)
(*   - the outcome of a call is a record: NotCalled, Return(v), Raise(e).  *)
(***************************************************************************)
EXTENDS Integers, Sequences, FiniteSets, TLC

VARIABLES
    a, b,                 \* compare_subtypes: the two paths
    cmp_ret,              \* compare_subtypes: outcome
    subtypes,             \* find_inconsistent_subtypes: the list of paths
    incon,                \* find_inconsistent_subtypes: local incon (list of pairs)
    c,                    \* find_inconsistent_subtypes: local c (the Counter)
    incon_subtypes,       \* find_inconsistent_subtypes: outcome
    st,                   \* the Subtype record read by the two checks
    confident_subtype,    \* check_is_confident_subtype: outcome
    subtype_status,       \* check_min_tiles_reached: outcome
    mixed_result,         \* translate_mixed_subtype_results: argument (Optional)
    min_tiles_result,     \* translate_min_tiles_results: argument (Optional)
    mixed_message,        \* translate_mixed_subtype_results: outcome
    min_tiles_message,    \* translate_min_tiles_results: outcome
    scheme,               \* get_scheme_*: the scheme identifier
    fs,                   \* the file system: path -> "absent" | "file" | "dir"
    scheme_fasta,         \* get_scheme_fasta: outcome
    version               \* get_scheme_version: outcome

vars == <<a, b, cmp_ret, subtypes, incon, c, incon_subtypes, st,
          confident_subtype, subtype_status, mixed_result,
          min_tiles_result, mixed_message,
          min_tiles_message, scheme, fs, scheme_fasta, version>>

pathVars == <<a, b, cmp_ret>>
findVars == <<subtypes, incon, c, incon_subtypes>>
qcVars == <<st, confident_subtype, subtype_status>>
msgVars == <<mixed_result, min_tiles_result, mixed_message, min_tiles_message>>
schemeVars == <<scheme, fs, scheme_fasta, version>>

(***************************************************************************)
(* Bounds of the model.                                                    *)
(***************************************************************************)
MaxPathLen == 3      \* length of each path given to compare_subtypes
MaxPaths == 3        \* number of paths given to find_inconsistent_subtypes
MaxTotalLabels == 6  \* labels in all paths given to find_inconsistent_subtypes
MaxStrLen == 3       \* length of n_tiles_matching_all_expected
MaxTiles == 103      \* n_tiles_matching_all is in 0..MaxTiles

(***************************************************************************)
(* Outcomes and Optional values.                                           *)
(***************************************************************************)
NotCalled == [kind |-> "none"]
Return(v) == [kind |-> "return", value |-> v]
Raise(e) == [kind |-> "raise", exc |-> e]

None == <<>>
Some(v) == <<v>>
IsNone(o) == Len(o) = 0
Get(o) == o[1]

Min(x, y) == IF x <= y THEN x ELSE y

\* All sequences over S of length 0..n.
SeqUpTo(S, n) == UNION {[1..k -> S] : k \in 0..n}

(***************************************************************************)
(* compare_subtypes (utils.py 75-79).  zip(a, b) stops at the shorter      *)
(* list; the loop returns False at the first unequal pair.                 *)
(***************************************************************************)
Zip(x, y) == [k \in 1..Min(Len(x), Len(y)) |-> <<x[k], y[k]>>]

RECURSIVE CompareLoop(_, _)
CompareLoop(z, k) ==
    IF k > Len(z) THEN TRUE
    ELSE IF z[k][1] # z[k][2] THEN FALSE
    ELSE CompareLoop(z, k + 1)

\* A variant that also requires equal lengths.
compare_subtypes_strict(x, y) == Len(x) = Len(y) /\ CompareLoop(Zip(x, y), 1)

compare_subtypes(x, y) == CompareLoop(Zip(x, y), 1)

(***************************************************************************)
(* str(x) of a non-negative int and '.'.join (utils.py 94-95).             *)
(***************************************************************************)
DigitChar == <<"0", "1", "2", "3", "4", "5", "6", "7", "8", "9">>

RECURSIVE Str(_)
Str(n) ==
    IF n < 10 THEN DigitChar[n + 1]
    ELSE Str(n \div 10) \o DigitChar[(n % 10) + 1]

RECURSIVE JoinFrom(_, _, _)
JoinFrom(sep, strs, k) ==
    IF k > Len(strs) THEN ""
    ELSE IF k = Len(strs) THEN strs[k]
    ELSE strs[k] \o sep \o JoinFrom(sep, strs, k + 1)

Join(sep, strs) == JoinFrom(sep, strs, 1)

\* '.'.join([str(x) for x in p])
DotJoin(p) == Join(".", [k \in 1..Len(p) |-> Str(p[k])])

(***************************************************************************)
(* find_inconsistent_subtypes (utils.py 82-104).                           *)
(***************************************************************************)
\* The inner loop, lines 87-91: j runs over range(i + 1, len(subtypes)).
\* Indices are Python's (from 0); sequence positions are index + 1.
RECURSIVE InnerLoop(_, _, _, _)
InnerLoop(paths, i, j, acc) ==
    IF j >= Len(paths) THEN acc
    ELSE InnerLoop(paths, i, j + 1,
                   IF ~compare_subtypes(paths[i + 1], paths[j + 1])
                   THEN Append(acc, <<paths[i + 1], paths[j + 1]>>)
                   ELSE acc)

\* The outer loop, lines 85-91: i runs over range(len(subtypes) - 1).
RECURSIVE OuterLoop(_, _, _)
OuterLoop(paths, i, acc) ==
    IF i >= Len(paths) - 1 THEN acc
    ELSE OuterLoop(paths, i + 1, InnerLoop(paths, i, i + 1, acc))

InconPairs(paths) == OuterLoop(paths, 0, <<>>)

\* Lines 92-96: l += [astr, bstr] for every recorded pair.
RECURSIVE FlattenFrom(_, _)
FlattenFrom(pairs, k) ==
    IF k > Len(pairs) THEN <<>>
    ELSE <<DotJoin(pairs[k][1]), DotJoin(pairs[k][2])>> \o FlattenFrom(pairs, k + 1)

Flatten(pairs) == FlattenFrom(pairs, 1)

\* Line 97: Counter(l).  A Counter is a dict: its keys are kept in the order
\* of their first insertion, each with the number of its occurrences.  It is
\* a sequence of records [key, count] in insertion order.
\* A variant that records a key without counting its later occurrences.
CounterAddOnce(cnt, s) ==
    IF \E k \in 1..Len(cnt) : cnt[k].key = s THEN cnt
    ELSE Append(cnt, [key |-> s, count |-> 1])

CounterAdd(cnt, s) ==
    IF \E k \in 1..Len(cnt) : cnt[k].key = s
    THEN [k \in 1..Len(cnt) |->
            IF cnt[k].key = s THEN [cnt[k] EXCEPT !.count = @ + 1] ELSE cnt[k]]
    ELSE Append(cnt, [key |-> s, count |-> 1])

RECURSIVE CounterFrom(_, _, _)
CounterFrom(l, k, cnt) ==
    IF k > Len(l) THEN cnt
    ELSE CounterFrom(l, k + 1, CounterAdd(cnt, l[k]))

Counter(l) == CounterFrom(l, 1, <<>>)

\* Line 99: Counter.most_common() is sorted(items, key=count, reverse=True):
\* a stable sort, so that items of equal count keep their insertion order
\* (the order of a dict, which Python keeps from version 3.7 on).
\* An item is inserted after every item whose count is at least its own.
\* A variant that puts an item before the items of equal count.
GoesBeforeUnstable(x, y) == x.count >= y.count

GoesBefore(x, y) == x.count > y.count

RECURSIVE InsertSorted(_, _, _)
InsertSorted(sorted, x, k) ==
    IF k > Len(sorted) THEN Append(sorted, x)
    ELSE IF GoesBefore(x, sorted[k])
    THEN SubSeq(sorted, 1, k - 1) \o <<x>> \o SubSeq(sorted, k, Len(sorted))
    ELSE InsertSorted(sorted, x, k + 1)

RECURSIVE SortFrom(_, _, _)
SortFrom(items, k, sorted) ==
    IF k > Len(items) THEN sorted
    ELSE SortFrom(items, k + 1, InsertSorted(sorted, items[k], 1))

most_common(cnt) == SortFrom(cnt, 1, <<>>)

\* Lines 99-103: the loop over most_common() with its guard and break.
\* A variant of the guard that drops the strings counted once.
FreqGuardAtLeastTwo(freq) == freq >= 2

FreqGuard(freq) == freq >= 1

RECURSIVE GuardLoop(_, _, _)
GuardLoop(ranked, k, acc) ==
    IF k > Len(ranked) THEN acc
    ELSE IF FreqGuard(ranked[k].count)
    THEN GuardLoop(ranked, k + 1, Append(acc, ranked[k].key))
    ELSE acc

Ranked(cnt) == GuardLoop(most_common(cnt), 1, <<>>)

find_inconsistent_subtypes(paths) == Ranked(Counter(Flatten(InconPairs(paths))))

(***************************************************************************)
(* int(st.n_tiles_matching_all_expected.split(";")[0])                     *)
(* (utils.py 110 and 122).                                                 *)
(***************************************************************************)
Digits == {"0", "1", "2", "3", "4", "5", "6", "7", "8", "9"}
Whitespace == {" "}

DigitValue(ch) == CHOOSE d \in 0..9 : DigitChar[d + 1] = ch

\* str.split(";")[0]: the characters before the first ";".
RECURSIVE FirstField(_, _)
FirstField(s, k) ==
    IF k > Len(s) \/ s[k] = ";" THEN SubSeq(s, 1, k - 1)
    ELSE FirstField(s, k + 1)

\* int() strips the whitespace around its argument.
RECURSIVE LStrip(_)
LStrip(s) ==
    IF Len(s) > 0 /\ s[1] \in Whitespace THEN LStrip(Tail(s)) ELSE s

RECURSIVE RStrip(_)
RStrip(s) ==
    IF Len(s) > 0 /\ s[Len(s)] \in Whitespace
    THEN RStrip(SubSeq(s, 1, Len(s) - 1)) ELSE s

RECURSIVE DigitsValue(_, _, _)
DigitsValue(s, k, acc) ==
    IF k > Len(s) THEN acc
    ELSE DigitsValue(s, k + 1, 10 * acc + DigitValue(s[k]))

AllDigits(s) == Len(s) > 0 /\ \A k \in 1..Len(s) : s[k] \in Digits

\* int(s) of a str: an optional sign, then one or more decimal digits.
\* The outcome is Return(n), or Raise("ValueError").
\* A variant that gives 0 for a text that is no integer.
IntOfStrDefaultZero(s) ==
    LET t == RStrip(LStrip(s))
        signed == Len(t) > 0 /\ t[1] \in {"-", "+"}
        body == IF signed THEN Tail(t) ELSE t
    IN IF AllDigits(body)
       THEN Return((IF signed /\ t[1] = "-" THEN -1 ELSE 1) * DigitsValue(body, 1, 0))
       ELSE Return(0)

IntOfStr(s) ==
    LET t == RStrip(LStrip(s))
        signed == Len(t) > 0 /\ t[1] \in {"-", "+"}
        body == IF signed THEN Tail(t) ELSE t
    IN IF AllDigits(body)
       THEN Return((IF signed /\ t[1] = "-" THEN -1 ELSE 1) * DigitsValue(body, 1, 0))
       ELSE Raise("ValueError")

\* The whole expression of lines 110 and 122.  None has no attribute split.
ExpectedTilesMatching(rec) ==
    IF IsNone(rec.n_tiles_matching_all_expected) THEN Raise("AttributeError")
    ELSE IntOfStr(FirstField(Get(rec.n_tiles_matching_all_expected), 1))

(***************************************************************************)
(* check_is_confident_subtype (utils.py 107-118).                          *)
(*                                                                         *)
(* The code compares the int n with the double expected * 0.01 + expected. *)
(* Both sides are scaled by 100 here: for every int expected of magnitude  *)
(* up to 2 * 10^5 the double comparison and the scaled integer comparison  *)
(* agree on every int n (the product expected * 0.01 rounds to the exact   *)
(* quotient whenever the threshold is an integer, and otherwise the        *)
(* threshold lies at least 0.01 away from every integer).                  *)
(***************************************************************************)
\* Line 112.
IsInconsistent(rec) ==
    \/ (~IsNone(rec.are_subtypes_consistent) /\ Get(rec.are_subtypes_consistent) = FALSE)
    \/ (~IsNone(rec.inconsistent_subtypes) /\ Get(rec.inconsistent_subtypes) > 0)

\* Lines 114-115: n >= expected * 0.01 + expected.  The two variants before
\* it leave the boundary out, and test a deficit of 1% as well.
ExceedsExpectedStrictly(n, expected) == 100 * n > expected + 100 * expected

ExceedsOrFallsShort(n, expected) ==
    \/ 100 * n >= expected + 100 * expected
    \/ 100 * n <= 100 * expected - expected

ExceedsExpected(n, expected) == 100 * n >= expected + 100 * expected

check_is_confident_subtype(rec) ==
    LET expected_tiles_matching == ExpectedTilesMatching(rec)
    IN IF expected_tiles_matching.kind = "raise" THEN expected_tiles_matching
       ELSE IF IsInconsistent(rec) THEN Return(FALSE)
       ELSE IF ExceedsExpected(rec.n_tiles_matching_all, expected_tiles_matching.value)
       THEN Return(FALSE)
       ELSE Return(TRUE)

(***************************************************************************)
(* check_min_tiles_reached (utils.py 121-128).  The double comparison      *)
(* n <= expected - expected * 0.05 is scaled by 100 in the same way.       *)
(***************************************************************************)
\* Line 123.  The variant before it leaves the boundary out.
BelowMinimumStrictly(n, expected) == 100 * n < 100 * expected - 5 * expected

BelowMinimum(n, expected) == 100 * n <= 100 * expected - 5 * expected

check_min_tiles_reached(rec) ==
    LET expected_tiles_matching == ExpectedTilesMatching(rec)
    IN IF expected_tiles_matching.kind = "raise" THEN expected_tiles_matching
       ELSE IF BelowMinimum(rec.n_tiles_matching_all, expected_tiles_matching.value)
       THEN Return(FALSE)
       ELSE Return(TRUE)

(***************************************************************************)
(* translate_mixed_subtype_results and translate_min_tiles_results         *)
(* (utils.py 131-146).                                                     *)
(***************************************************************************)
translate_mixed_subtype_results(r) ==
    IF r = TRUE THEN "ERROR: MIXED SUBTYPES" ELSE "Subtypes not mixed"

\* A variant with the two messages exchanged.
translate_min_tiles_results_swapped(r) ==
    IF r = TRUE THEN "Expected number of tiles reached"
    ELSE "ERROR: Insufficient number of SNV targets found!"

translate_min_tiles_results(r) ==
    IF r = TRUE THEN "ERROR: Insufficient number of SNV targets found!"
    ELSE "Expected number of tiles reached"

(***************************************************************************)
(* SCHEME_FASTAS, get_scheme_fasta and get_scheme_version                  *)
(* (utils.py 14-17 and 149-163).  resource_filename gives the path of a    *)
(* file of the installed package; the package's directory is written       *)
(* "bio_hansel".                                                           *)
(***************************************************************************)
SCHEME_FASTAS ==
    [heidelberg |-> [file |-> "bio_hansel/data/heidelberg/tiles.fasta",
                     version |-> "0.5.0"],
     enteritidis |-> [file |-> "bio_hansel/data/enteritidis/tiles.fasta",
                      version |-> "0.7.0"]]

\* os.path.exists(p) and os.path.isfile(p)
PathExists(files, p) == files[p] # "absent"
PathIsFile(files, p) == files[p] = "file"

\* A variant that looks for a file before it looks in the registry.
get_scheme_fasta_file_first(name, files) ==
    IF PathExists(files, name) /\ PathIsFile(files, name) THEN Return(name)
    ELSE IF name \in DOMAIN SCHEME_FASTAS THEN Return(SCHEME_FASTAS[name].file)
    ELSE Raise("FileNotFoundError")

get_scheme_fasta(name, files) ==
    IF name \in DOMAIN SCHEME_FASTAS THEN Return(SCHEME_FASTAS[name].file)
    ELSE IF PathExists(files, name) /\ PathIsFile(files, name) THEN Return(name)
    ELSE Raise("FileNotFoundError")

get_scheme_version(name) ==
    IF name \in DOMAIN SCHEME_FASTAS THEN Return(Some(SCHEME_FASTAS[name].version))
    ELSE Return(None)

(***************************************************************************)
(* The inputs.                                                             *)
(***************************************************************************)
Labels == {1, 2, 3, 4}
Paths == SeqUpTo(Labels, MaxPathLen)

FindLabels == {1, 2, 3}

\* The lists of at most n paths over FindLabels holding at most budget labels:
\* every way of cutting a sequence of at most budget labels into at most n
\* paths (lens gives the length of each path).
RECURSIVE SumSeq(_)
SumSeq(lens) == IF Len(lens) = 0 THEN 0 ELSE lens[1] + SumSeq(Tail(lens))

RECURSIVE Cut(_, _)
Cut(flat, lens) ==
    IF Len(lens) = 0 THEN <<>>
    ELSE <<SubSeq(flat, 1, lens[1])>>
         \o Cut(SubSeq(flat, lens[1] + 1, Len(flat)), Tail(lens))

PathLengths(n, budget) == {ls \in SeqUpTo(0..budget, n) : SumSeq(ls) <= budget}

ExpectedChars == {"0", "1", ";", "a"}
OptionalBools == {None, Some(TRUE), Some(FALSE)}
OptionalCounts == {None, Some(0), Some(1)}

Subtypes ==
    [n_tiles_matching_all : 0..MaxTiles,
     n_tiles_matching_all_expected :
         {None} \cup {Some(s) : s \in SeqUpTo(ExpectedChars, MaxStrLen)},
     are_subtypes_consistent : OptionalBools,
     inconsistent_subtypes : OptionalCounts]

Schemes == {"heidelberg", "enteritidis", "my_scheme.fasta", "schemes_dir"}
FileSystems == [Schemes -> {"absent", "file", "dir"}]

\* The values of the variables a specification does not use.
IdleSubtype ==
    [n_tiles_matching_all |-> 0, n_tiles_matching_all_expected |-> None,
     are_subtypes_consistent |-> None, inconsistent_subtypes |-> None]

IdlePath == a = <<>> /\ b = <<>> /\ cmp_ret = NotCalled
IdleFind == subtypes = <<>> /\ incon = <<>> /\ c = <<>> /\ incon_subtypes = NotCalled
IdleQC == st = IdleSubtype /\ confident_subtype = NotCalled /\ subtype_status = NotCalled
IdleMsg ==
    /\ mixed_result = None /\ min_tiles_result = None
    /\ mixed_message = NotCalled /\ min_tiles_message = NotCalled
IdleScheme ==
    /\ scheme = "heidelberg" /\ fs = [p \in Schemes |-> "absent"]
    /\ scheme_fasta = NotCalled /\ version = NotCalled

(***************************************************************************)
(* The calls.                                                              *)
(***************************************************************************)
CompareSubtypes ==
    /\ cmp_ret = NotCalled
    /\ cmp_ret' = Return(compare_subtypes(a, b))
    /\ UNCHANGED <<a, b, findVars, qcVars, msgVars, schemeVars>>

FindInconsistentSubtypes ==
    /\ incon_subtypes = NotCalled
    /\ LET pairs == InconPairs(subtypes)
           counts == Counter(Flatten(pairs))
       IN /\ incon' = pairs
          /\ c' = counts
          /\ incon_subtypes' = Return(Ranked(counts))
    /\ UNCHANGED <<subtypes, pathVars, qcVars, msgVars, schemeVars>>

CheckIsConfidentSubtype ==
    /\ confident_subtype = NotCalled
    /\ confident_subtype' = check_is_confident_subtype(st)
    /\ UNCHANGED <<st, subtype_status, pathVars, findVars, msgVars, schemeVars>>

CheckMinTilesReached ==
    /\ subtype_status = NotCalled
    /\ subtype_status' = check_min_tiles_reached(st)
    /\ UNCHANGED <<st, confident_subtype, pathVars, findVars, msgVars, schemeVars>>

TranslateMixedSubtypeResults ==
    /\ mixed_message = NotCalled
    /\ \E r \in BOOLEAN :
         /\ mixed_result' = Some(r)
         /\ mixed_message' = Return(translate_mixed_subtype_results(r))
    /\ UNCHANGED <<min_tiles_result, min_tiles_message, pathVars, findVars, qcVars, schemeVars>>

TranslateMinTilesResults ==
    /\ min_tiles_message = NotCalled
    /\ \E r \in BOOLEAN :
         /\ min_tiles_result' = Some(r)
         /\ min_tiles_message' = Return(translate_min_tiles_results(r))
    /\ UNCHANGED <<mixed_result, mixed_message, pathVars, findVars, qcVars, schemeVars>>

GetSchemeFasta ==
    /\ scheme_fasta = NotCalled
    /\ scheme_fasta' = get_scheme_fasta(scheme, fs)
    /\ UNCHANGED <<scheme, fs, version, pathVars, findVars, qcVars, msgVars>>

GetSchemeVersion ==
    /\ version = NotCalled
    /\ version' = get_scheme_version(scheme)
    /\ UNCHANGED <<scheme, fs, scheme_fasta, pathVars, findVars, qcVars, msgVars>>

(***************************************************************************)
(* The specifications: one for each group of functions.                    *)
(***************************************************************************)
InitCompare ==
    /\ a \in Paths /\ b \in Paths /\ cmp_ret = NotCalled
    /\ IdleFind /\ IdleQC /\ IdleMsg /\ IdleScheme

NextCompare == CompareSubtypes

SpecCompare == InitCompare /\ [][NextCompare]_vars

InitFind ==
    /\ \E lens \in PathLengths(MaxPaths, MaxTotalLabels) :
         \E flat \in [1..SumSeq(lens) -> FindLabels] : subtypes = Cut(flat, lens)
    /\ incon = <<>> /\ c = <<>> /\ incon_subtypes = NotCalled
    /\ IdlePath /\ IdleQC /\ IdleMsg /\ IdleScheme

NextFind == FindInconsistentSubtypes

SpecFind == InitFind /\ [][NextFind]_vars

InitQC ==
    /\ st \in Subtypes
    /\ confident_subtype = NotCalled /\ subtype_status = NotCalled
    /\ IdlePath /\ IdleFind /\ IdleMsg /\ IdleScheme

NextQC == CheckIsConfidentSubtype \/ CheckMinTilesReached

SpecQC == InitQC /\ [][NextQC]_vars

InitUtil ==
    /\ scheme \in Schemes /\ fs \in FileSystems
    /\ scheme_fasta = NotCalled /\ version = NotCalled
    /\ IdleMsg /\ IdlePath /\ IdleFind /\ IdleQC

NextUtil ==
    \/ GetSchemeFasta
    \/ GetSchemeVersion
    \/ TranslateMixedSubtypeResults
    \/ TranslateMinTilesResults

SpecUtil == InitUtil /\ [][NextUtil]_vars

(***************************************************************************)
(* Properties of compare_subtypes (checked under SpecCompare).             *)
(***************************************************************************)
\* C1: compare_subtypes(a, b) is true exactly when a[k] = b[k] at every
\* position k of the overlap 1..min(len(a), len(b)), whatever the lengths;
\* [1,2,3] against [1,2] is true and [1,2,3] against [1,2,4] is false.
C1_OverlapOnly ==
    cmp_ret.kind = "return" =>
        /\ cmp_ret.value = (\A k \in 1..Min(Len(a), Len(b)) : a[k] = b[k])
        /\ (a = <<1, 2, 3>> /\ b = <<1, 2>> => cmp_ret.value = TRUE)
        /\ (a = <<1, 2, 3>> /\ b = <<1, 2, 4>> => cmp_ret.value = FALSE)

C1_Witness ==
    /\ a = <<1, 2, 3>> /\ b = <<1, 2>>
    /\ cmp_ret = Return(TRUE)

(***************************************************************************)
(* Properties of find_inconsistent_subtypes (checked under SpecFind).      *)
(***************************************************************************)
\* The pairs (i, j), i < j, of positions of subtypes whose paths disagree.
DisagreeingPairs ==
    {pr \in (1..Len(subtypes)) \X (1..Len(subtypes)) :
        pr[1] < pr[2] /\ ~compare_subtypes(subtypes[pr[1]], subtypes[pr[2]])}

\* The appearances of strings in the pair enumeration: for every disagreeing
\* pair and each side of it, the joined string of that side and its rank in
\* the enumeration (i ascending, then j ascending, the first element of a
\* pair before the second).
AppearancesIn(pairs) ==
    {[str |-> DotJoin(subtypes[ap[1][ap[2]]]),
      rank |-> ((ap[1][1] * (Len(subtypes) + 1)) + ap[1][2]) * 2 + ap[2]] :
        ap \in pairs \X {1, 2}}

RangeOf(seq) == {seq[k] : k \in 1..Len(seq)}

\* C5: the result has no duplicates and holds exactly the joined forms of
\* the paths that take part in a disagreeing pair; it is empty for zero or
\* one path and when all paths pairwise agree.
C5_ExactlyTheDisagreeing ==
    incon_subtypes.kind = "return" =>
        LET res == incon_subtypes.value
            disagreeing == DisagreeingPairs
            apps == AppearancesIn(disagreeing)
        IN /\ \A p, q \in 1..Len(res) : p # q => res[p] # res[q]
           /\ RangeOf(res) = {ap.str : ap \in apps}
           /\ (Len(subtypes) <= 1 => res = <<>>)
           /\ (disagreeing = {} => res = <<>>)

C5_Witness ==
    /\ subtypes = <<<<1>>, <<1, 2>>, <<2>>>>
    /\ incon_subtypes = Return(<<"2", "1", "1.2">>)

\* C6: the count of a string is the number of its appearances in the
\* disagreeing pairs; the result is ordered by descending count, and strings
\* of equal count are in the order in which the enumeration first met them.
C6_CountsAndOrder ==
    incon_subtypes.kind = "return" =>
        LET res == incon_subtypes.value
            apps == AppearancesIn(DisagreeingPairs)
            keys == {c[k].key : k \in 1..Len(c)}
            count == [s \in keys |-> Cardinality({ap \in apps : ap.str = s})]
            first == [s \in keys |->
                        CHOOSE r \in {ap.rank : ap \in {x \in apps : x.str = s}} :
                            \A ap \in apps : ap.str = s => r <= ap.rank]
        IN /\ \A k \in 1..Len(c) : c[k].count = count[c[k].key]
           /\ RangeOf(res) = keys
           /\ \A p, q \in 1..Len(res) :
                p < q =>
                    \/ count[res[p]] > count[res[q]]
                    \/ (count[res[p]] = count[res[q]] /\ first[res[p]] < first[res[q]])

C6_Witness ==
    /\ subtypes = <<<<1>>, <<2>>, <<1, 3>>>>
    /\ c = <<[key |-> "1", count |-> 1], [key |-> "2", count |-> 2],
             [key |-> "1.3", count |-> 1]>>
    /\ incon_subtypes = Return(<<"2", "1", "1.3">>)

CountIn(cnt, s) ==
    IF \E k \in 1..Len(cnt) : cnt[k].key = s
    THEN (CHOOSE k \in 1..Len(cnt) : cnt[k].key = s)
    ELSE 0

CountOf(s) == IF CountIn(c, s) = 0 THEN 0 ELSE c[CountIn(c, s)].count

C9_Input == <<<<1, 2>>, <<1, 2>>, <<1, 3>>>>

\* C9 as stated: on [[1,2],[1,2],[1,3]] exactly one disagreeing pair is
\* recorded, "1.2" and "1.3" have count 1 each, and the result holds both,
\* ordered by descending frequency.
C9_OnePair ==
    (subtypes = C9_Input /\ incon_subtypes.kind = "return") =>
        /\ Len(incon) = 1
        /\ CountOf("1.2") = 1 /\ CountOf("1.3") = 1
        /\ RangeOf(incon_subtypes.value) = {"1.2", "1.3"}

\* C9 as amended: on [[1,2],[1,2],[1,3]] two disagreeing pairs are recorded
\* (each [1,2] against [1,3]), "1.2" and "1.3" have count 2 each, and the
\* result is ["1.2", "1.3"].
C9_TwoPairs ==
    (subtypes = C9_Input /\ incon_subtypes.kind = "return") =>
        /\ incon = <<<< <<1, 2>>, <<1, 3>> >>, << <<1, 2>>, <<1, 3>> >>>>
        /\ CountOf("1.2") = 2 /\ CountOf("1.3") = 2
        /\ incon_subtypes.value = <<"1.2", "1.3">>

C9_Witness ==
    /\ subtypes = C9_Input
    /\ Len(incon) = 2
    /\ incon_subtypes.kind = "return"

(***************************************************************************)
(* Properties of the two quality checks (checked under SpecQC).            *)
(***************************************************************************)
\* The text before the first ";" of s, and whether it is decimal digits
\* (the texts are over ExpectedChars, whose digits are "0" and "1").
FirstFieldOf(s) ==
    LET semis == {k \in 1..Len(s) : s[k] = ";"}
    IN IF semis = {} THEN s
       ELSE SubSeq(s, 1, (CHOOSE k \in semis : \A m \in semis : k <= m) - 1)

IsDecimal(f) == Len(f) > 0 /\ \A k \in 1..Len(f) : f[k] \in {"0", "1"}

RECURSIVE Pow10(_)
Pow10(n) == IF n = 0 THEN 1 ELSE 10 * Pow10(n - 1)

RECURSIVE DecimalSum(_, _)
DecimalSum(f, k) ==
    IF k > Len(f) THEN 0
    ELSE (IF f[k] = "1" THEN Pow10(Len(f) - k) ELSE 0) + DecimalSum(f, k + 1)

\* n_tiles_matching_all_expected of st parses, and the integer it gives.
Parses ==
    /\ ~IsNone(st.n_tiles_matching_all_expected)
    /\ IsDecimal(FirstFieldOf(Get(st.n_tiles_matching_all_expected)))

Expected == DecimalSum(FirstFieldOf(Get(st.n_tiles_matching_all_expected)), 1)

ExpectedIs(str) == st.n_tiles_matching_all_expected = Some(str)

\* are_subtypes_consistent is false, or inconsistent_subtypes is non-null
\* and greater than zero.
FlaggedInconsistent ==
    \/ st.are_subtypes_consistent = Some(FALSE)
    \/ (st.inconsistent_subtypes # None /\ st.inconsistent_subtypes[1] > 0)

\* C2: when the expected count parses, check_is_confident_subtype returns
\* false if the record is flagged inconsistent, otherwise false exactly when
\* 100 * n >= 101 * expected, otherwise true; with expected 100 and a
\* consistent record, n = 100 gives true and n = 102 gives false.
C2_ConfidentRule ==
    (Parses /\ confident_subtype.kind # "none") =>
        /\ confident_subtype.kind = "return"
        /\ (FlaggedInconsistent => confident_subtype.value = FALSE)
        /\ (~FlaggedInconsistent =>
                confident_subtype.value =
                    ~(100 * st.n_tiles_matching_all >= 101 * Expected))
        /\ (/\ ExpectedIs(<<"1", "0", "0">>) /\ ~FlaggedInconsistent
            /\ st.n_tiles_matching_all = 100
            => confident_subtype.value = TRUE)
        /\ (/\ ExpectedIs(<<"1", "0", "0">>) /\ ~FlaggedInconsistent
            /\ st.n_tiles_matching_all = 102
            => confident_subtype.value = FALSE)

C2_Witness ==
    /\ ExpectedIs(<<"1", "0", "0">>)
    /\ st.n_tiles_matching_all = 102
    /\ st.are_subtypes_consistent = Some(TRUE)
    /\ st.inconsistent_subtypes = None
    /\ confident_subtype = Return(FALSE)

\* C3: when the expected count parses, check_min_tiles_reached returns false
\* exactly when 100 * n <= 95 * expected (the boundary included) and true
\* otherwise; only the text before the first ";" gives expected; with
\* expected 100, n = 95 gives false and n = 96 gives true.
C3_MinTilesRule ==
    (Parses /\ subtype_status.kind # "none") =>
        /\ subtype_status.kind = "return"
        /\ subtype_status.value = ~(100 * st.n_tiles_matching_all <= 95 * Expected)
        /\ (ExpectedIs(<<"1", "0", "0">>) /\ st.n_tiles_matching_all = 95
            => subtype_status.value = FALSE)
        /\ (ExpectedIs(<<"1", "0", "0">>) /\ st.n_tiles_matching_all = 96
            => subtype_status.value = TRUE)
        /\ (ExpectedIs(<<"1", "0", ";">>) /\ st.n_tiles_matching_all = 9
            => subtype_status.value = FALSE)
        /\ (ExpectedIs(<<"1", ";", "0">>) /\ st.n_tiles_matching_all = 1
            => subtype_status.value = TRUE)

C3_Witness ==
    /\ ExpectedIs(<<"1", "0", "0">>)
    /\ st.n_tiles_matching_all = 95
    /\ subtype_status = Return(FALSE)

\* C4: when the expected count is missing or the text before its first ";"
\* is no integer, both checks raise and return no boolean, whatever the
\* other fields hold.
C4_MalformedRaises ==
    ~Parses =>
        /\ (confident_subtype.kind # "none" =>
                /\ confident_subtype.kind = "raise"
                /\ confident_subtype.exc \in {"ValueError", "AttributeError"})
        /\ (subtype_status.kind # "none" =>
                /\ subtype_status.kind = "raise"
                /\ subtype_status.exc \in {"ValueError", "AttributeError"})

C4_Witness ==
    /\ ExpectedIs(<<"a">>)
    /\ st.are_subtypes_consistent = Some(FALSE)
    /\ st.inconsistent_subtypes = Some(1)
    /\ confident_subtype = Raise("ValueError")
    /\ subtype_status = Raise("ValueError")

\* C8 as stated: a record is confident exactly when it is not flagged
\* inconsistent and n deviates from expected by at most 1% of expected, in
\* excess or in deficit (stated for a positive expected count).
C8_WithinOnePercentBothWays ==
    (Parses /\ Expected > 0 /\ confident_subtype.kind = "return") =>
        confident_subtype.value =
            (/\ ~FlaggedInconsistent
             /\ 100 * (st.n_tiles_matching_all - Expected) <= Expected
             /\ 100 * (Expected - st.n_tiles_matching_all) <= Expected)

\* C8 as amended: a record is confident exactly when it is not flagged
\* inconsistent and n exceeds expected by less than 1% of expected; a
\* deficit of any size leaves a consistent record confident.
C8_ExcessOnly ==
    (Parses /\ confident_subtype.kind = "return") =>
        /\ confident_subtype.value =
            (/\ ~FlaggedInconsistent
             /\ 100 * (st.n_tiles_matching_all - Expected) < Expected)
        /\ (~FlaggedInconsistent /\ st.n_tiles_matching_all < Expected
            => confident_subtype.value = TRUE)

C8_Witness ==
    /\ ExpectedIs(<<"1", "0", "0">>)
    /\ st.n_tiles_matching_all = 50
    /\ ~FlaggedInconsistent
    /\ confident_subtype = Return(TRUE)

(***************************************************************************)
(* Properties of the translations and of the scheme resolution (checked    *)
(* under SpecUtil).                                                        *)
(***************************************************************************)
\* C7: translate_mixed_subtype_results gives "ERROR: MIXED SUBTYPES" for
\* true and "Subtypes not mixed" for false; translate_min_tiles_results
\* gives "ERROR: Insufficient number of SNV targets found!" for true and
\* "Expected number of tiles reached" for false; no other string is given.
C7_Messages ==
    /\ (mixed_result = Some(TRUE) => mixed_message = Return("ERROR: MIXED SUBTYPES"))
    /\ (mixed_result = Some(FALSE) => mixed_message = Return("Subtypes not mixed"))
    /\ (min_tiles_result = Some(TRUE) =>
            min_tiles_message = Return("ERROR: Insufficient number of SNV targets found!"))
    /\ (min_tiles_result = Some(FALSE) =>
            min_tiles_message = Return("Expected number of tiles reached"))

C7_Witness ==
    /\ mixed_result = Some(FALSE)
    /\ mixed_message = Return("Subtypes not mixed")
    /\ min_tiles_result = Some(TRUE)
    /\ min_tiles_message = Return("ERROR: Insufficient number of SNV targets found!")

BuiltIn == {"heidelberg", "enteritidis"}
Resolved == scheme_fasta.kind # "none" /\ version.kind # "none"
IsVersionString(v) == v \in {Some("0.5.0"), Some("0.7.0")}

\* The three cases of C10 that the code and the claim agree on are those of
\* the path: the registry's file for a built-in name, the identifier itself
\* for another existing regular file, a not-found failure otherwise.
PathResolution ==
    /\ (scheme = "heidelberg" =>
            /\ scheme_fasta = Return("bio_hansel/data/heidelberg/tiles.fasta")
            /\ version = Return(Some("0.5.0")))
    /\ (scheme = "enteritidis" =>
            /\ scheme_fasta = Return("bio_hansel/data/enteritidis/tiles.fasta")
            /\ version = Return(Some("0.7.0")))
    /\ (scheme \notin BuiltIn /\ fs[scheme] = "file" => scheme_fasta = Return(scheme))
    /\ (scheme \notin BuiltIn /\ fs[scheme] # "file" =>
            scheme_fasta = Raise("FileNotFoundError"))

\* C10 as stated: every identifier that resolves is mapped to a path and a
\* version string; an identifier that is neither built-in nor a file fails.
C10_PathAndVersionString ==
    Resolved =>
        /\ PathResolution
        /\ (scheme_fasta.kind = "return" => IsVersionString(version.value))

\* C10 as amended: a built-in name resolves to the registry's file and
\* version, also when a file of that name exists; another identifier that
\* names an existing regular file resolves to itself as the path and has no
\* version (get_scheme_version returns None); for any other identifier
\* get_scheme_fasta raises FileNotFoundError and get_scheme_version
\* returns None.
C10_VersionOnlyForBuiltIn ==
    Resolved =>
        /\ PathResolution
        /\ (scheme \notin BuiltIn => version = Return(None))

C10_Witness ==
    /\ scheme = "my_scheme.fasta"
    /\ fs["my_scheme.fasta"] = "file"
    /\ fs["heidelberg"] = "file"
    /\ scheme_fasta = Return("my_scheme.fasta")
    /\ version = Return(None)

====
